---- MODULE Spec2Model ----
(***************************************************************************)
(* Model of the WebVTT caption parser of src/api/routes/transcript.py:     *)
(* parse_vtt_captions (cue extraction followed by greedy grouping into     *)
(* segments of at least five seconds) and parse_vtt_timestamp.             *)
(*                                                                         *)
(* Strings are sequences of one-character strings, so that strip, split,   *)
(* startswith, endswith, the substring test and float() are computed       *)
(* character by character.  Times are integers in milliseconds: the model  *)
(* of float() keeps three fractional digits.  float() forms that no input  *)
(* of the model spells (exponents, inf, nan, digit separators) are not     *)
(* modelled.  Indices follow the source: i is a 0-based cursor, so the     *)
(* element under the cursor is seq[i + 1].                                 *)
(***************************************************************************)
EXTENDS Integers, Sequences, FiniteSets, TLC

(***************************************************************************)
(* Python string primitives                                                *)
(***************************************************************************)
Whitespace == {" ", "\t", "\n", "\r"}

RECURSIVE LStrip(_)
LStrip(s) ==
    IF s # <<>> /\ s[1] \in Whitespace THEN LStrip(Tail(s)) ELSE s

RECURSIVE RStrip(_)
RStrip(s) ==
    IF s # <<>> /\ s[Len(s)] \in Whitespace
    THEN RStrip(SubSeq(s, 1, Len(s) - 1))
    ELSE s

\* str.strip()
Strip(s) == RStrip(LStrip(s))

\* str.startswith(p)
StartsWith(s, p) == Len(s) >= Len(p) /\ SubSeq(s, 1, Len(p)) = p

\* str.endswith(p)
EndsWith(s, p) ==
    Len(s) >= Len(p) /\ SubSeq(s, Len(s) - Len(p) + 1, Len(s)) = p

\* str.find(p) + 1: position of the first occurrence of p in s, 0 if none
Find(s, p) ==
    LET hits == {k \in 1..(Len(s) - Len(p) + 1) : SubSeq(s, k, k + Len(p) - 1) = p}
    IN  IF hits = {} THEN 0 ELSE CHOOSE k \in hits : \A j \in hits : k <= j

\* p in s
Contains(s, p) == Find(s, p) # 0

\* str.split(sep): the pieces between the occurrences of sep, left to right
RECURSIVE SplitOn(_, _)
SplitOn(s, sep) ==
    LET k == Find(s, sep)
    IN  IF k = 0
        THEN <<s>>
        ELSE <<SubSeq(s, 1, k - 1)>> \o SplitOn(SubSeq(s, k + Len(sep), Len(s)), sep)

\* the first whitespace-delimited token of a string that starts with one
RECURSIVE FirstToken(_)
FirstToken(s) ==
    IF s = <<>> \/ s[1] \in Whitespace THEN <<>> ELSE <<s[1]>> \o FirstToken(Tail(s))

\* str.split() without argument: the maximal runs of non-whitespace
RECURSIVE SplitWs(_)
SplitWs(s) ==
    LET t == LStrip(s)
    IN  IF t = <<>>
        THEN <<>>
        ELSE LET tok == FirstToken(t)
             IN  <<tok>> \o SplitWs(SubSeq(t, Len(tok) + 1, Len(t)))

\* sep.join(parts)
RECURSIVE Join(_, _)
Join(parts, sep) ==
    IF parts = <<>> THEN <<>>
    ELSE IF Len(parts) = 1 THEN parts[1]
    ELSE parts[1] \o sep \o Join(Tail(parts), sep)

\* seq[:n]
Take(seq, n) == SubSeq(seq, 1, IF Len(seq) < n THEN Len(seq) ELSE n)

(***************************************************************************)
(* float() and str() of a non-negative int                                 *)
(***************************************************************************)
DigitChars == <<"0", "1", "2", "3", "4", "5", "6", "7", "8", "9">>

IsDigit(c) == \E k \in 1..10 : DigitChars[k] = c

DigitVal(c) == (CHOOSE k \in 1..10 : DigitChars[k] = c) - 1

AllDigits(s) == \A k \in 1..Len(s) : IsDigit(s[k])

RECURSIVE IntOf(_)
IntOf(ds) ==
    IF ds = <<>> THEN 0
    ELSE 10 * IntOf(SubSeq(ds, 1, Len(ds) - 1)) + DigitVal(ds[Len(ds)])

\* the fractional digits as thousandths
FracMillis(ds) ==
    LET d(k) == IF k <= Len(ds) THEN DigitVal(ds[k]) ELSE 0
    IN  100 * d(1) + 10 * d(2) + d(3)

\* variant: the empty string read as zero
ParseFloat_EmptyIsZero(s0) ==
    LET s     == Strip(s0)
        neg   == s # <<>> /\ s[1] = "-"
        body  == IF s # <<>> /\ s[1] \in {"+", "-"} THEN Tail(s) ELSE s
        parts == SplitOn(body, <<".">>)
        ip    == parts[1]
        fp    == IF Len(parts) >= 2 THEN parts[2] ELSE <<>>
        ok    == /\ Len(parts) <= 2
                 /\ AllDigits(ip)
                 /\ AllDigits(fp)
        mag   == IntOf(ip) * 1000 + FracMillis(fp)
    IN  IF ok THEN [ok |-> TRUE, val |-> IF neg THEN 0 - mag ELSE mag]
        ELSE [ok |-> FALSE, val |-> 0]

\* float(s), in milliseconds; ok = FALSE stands for ValueError
ParseFloat(s0) ==
    LET s     == Strip(s0)
        neg   == s # <<>> /\ s[1] = "-"
        body  == IF s # <<>> /\ s[1] \in {"+", "-"} THEN Tail(s) ELSE s
        parts == SplitOn(body, <<".">>)
        ip    == parts[1]
        fp    == IF Len(parts) >= 2 THEN parts[2] ELSE <<>>
        ok    == /\ Len(parts) <= 2
                 /\ AllDigits(ip)
                 /\ AllDigits(fp)
                 /\ Len(ip) + Len(fp) > 0
        mag   == IntOf(ip) * 1000 + FracMillis(fp)
    IN  IF ok THEN [ok |-> TRUE, val |-> IF neg THEN 0 - mag ELSE mag]
        ELSE [ok |-> FALSE, val |-> 0]

\* str(n) for n >= 0
RECURSIVE ToDecimal(_)
ToDecimal(n) ==
    IF n < 10 THEN <<DigitChars[n + 1]>>
    ELSE ToDecimal(n \div 10) \o <<DigitChars[(n % 10) + 1]>>

(***************************************************************************)
(* parse_vtt_timestamp                                                     *)
(***************************************************************************)
\* variant: hours weighted like minutes
parse_vtt_timestamp_HoursAsMinutes(timestamp_str) ==
    LET parts == SplitOn(timestamp_str, <<":">>)
        f(k)  == ParseFloat(parts[k])
    IN  IF Len(parts) = 3
        THEN IF f(1).ok /\ f(2).ok /\ f(3).ok
             THEN [ok |-> TRUE, val |-> f(1).val * 60 + f(2).val * 60 + f(3).val]
             ELSE [ok |-> FALSE, val |-> 0]
        ELSE IF Len(parts) = 2
        THEN IF f(1).ok /\ f(2).ok
             THEN [ok |-> TRUE, val |-> f(1).val * 60 + f(2).val]
             ELSE [ok |-> FALSE, val |-> 0]
        ELSE ParseFloat(timestamp_str)

parse_vtt_timestamp(timestamp_str) ==
    LET parts == SplitOn(timestamp_str, <<":">>)
        f(k)  == ParseFloat(parts[k])
    IN  IF Len(parts) = 3
        THEN IF f(1).ok /\ f(2).ok /\ f(3).ok
             THEN [ok |-> TRUE, val |-> f(1).val * 3600 + f(2).val * 60 + f(3).val]
             ELSE [ok |-> FALSE, val |-> 0]
        ELSE IF Len(parts) = 2
        THEN IF f(1).ok /\ f(2).ok
             THEN [ok |-> TRUE, val |-> f(1).val * 60 + f(2).val]
             ELSE [ok |-> FALSE, val |-> 0]
        ELSE ParseFloat(timestamp_str)

(***************************************************************************)
(* parse_vtt_captions: helpers of the cue extraction loop                  *)
(***************************************************************************)
Arrow == <<"-","-",">">>

\* the skip test of the line-scanning loop
Skippable(line) ==
    \/ line = <<>>
    \/ StartsWith(line, <<"W","E","B","V","T","T">>)
    \/ StartsWith(line, <<"N","O","T","E">>)
    \/ ~Contains(line, Arrow)

\* variant: the end timestamp taken from the last token of the line
TimingParse_LastToken(line) ==
    LET time_parts == SplitOn(line, Arrow)
        st   == parse_vtt_timestamp(Strip(time_parts[1]))
        toks == SplitWs(Strip(time_parts[2]))
        en   == IF toks = <<>> THEN [ok |-> FALSE, val |-> 0]
                ELSE parse_vtt_timestamp(toks[Len(toks)])
    IN  [ok |-> st.ok /\ en.ok, start_time |-> st.val, end_time |-> en.val]

\* the two timestamps of a timing line; ok = FALSE stands for the
\* ValueError of float() or the IndexError of split()[0]
TimingParse(line) ==
    LET time_parts == SplitOn(line, Arrow)
        st   == parse_vtt_timestamp(Strip(time_parts[1]))
        toks == SplitWs(Strip(time_parts[2]))
        en   == IF toks = <<>> THEN [ok |-> FALSE, val |-> 0]
                ELSE parse_vtt_timestamp(toks[1])
    IN  [ok |-> st.ok /\ en.ok, start_time |-> st.val, end_time |-> en.val]

\* variant: the filter left out
RetainBodyLine_KeepAll(text) == TRUE

\* the styling-tag filter of the cue body
RetainBodyLine(text) ==
    ~StartsWith(text, <<"<">>) /\ ~EndsWith(text, <<">">>)

\* variant: the body loop stopped at a line that holds an arrow
BodyContinues_StopAtArrow(line) == line # <<>> /\ ~Contains(line, Arrow)

\* the test of the body loop on the stripped line under the cursor
BodyContinues(line) == line # <<>>

\* variant: the cue appended whether or not any text was retained
HasText_Always(text_lines) == TRUE

\* the test before a cue is appended
HasText(text_lines) == text_lines # <<>>

\* variant: the two timestamps exchanged
MakeCaption_Swapped(text_lines, st, en) ==
    [text |-> Join(text_lines, <<" ">>), startTime |-> en, endTime |-> st]

MakeCaption(text_lines, st, en) ==
    [text |-> Join(text_lines, <<" ">>), startTime |-> st, endTime |-> en]

(***************************************************************************)
(* parse_vtt_captions: helpers of the grouping loop                        *)
(***************************************************************************)
\* five seconds, in milliseconds
Threshold == 5000

\* variant: the end-of-list test written the wrong way round
ShouldBreak_Always(duration, cursor, n) == duration >= Threshold \/ cursor <= n

\* variant: a span of exactly the threshold does not close the segment
ShouldBreak_Strict(duration, cursor, n) == duration > Threshold \/ cursor >= n

\* variant: the duration test left out
ShouldBreak_NoThreshold(duration, cursor, n) == cursor >= n

ShouldBreak(duration, cursor, n) == duration >= Threshold \/ cursor >= n

\* variant: the segment opened at the end of its first cue
SegmentStartOf_End(caption) == caption.endTime

\* the start of a segment opened at a cue
SegmentStartOf(caption) == caption.startTime

\* variant: the end of the open segment read from the wrong key
SegmentEndOf_Start(caption) == caption.startTime

\* the end of the open segment after folding a cue
SegmentEndOf(caption) == caption.endTime

\* variant: the cursor left where it is
NextCursor_Stay(c) == c

\* variant: the cursor advanced twice per folded cue
NextCursor_Twice(c) == c + 2

\* the cursor of the grouping loop after folding one cue
NextCursor(c) == c + 1

\* variant: three words kept
ClaimText_Three(segment_text) ==
    LET words == Take(SplitWs(segment_text), 3)
    IN  IF words # <<>> THEN Join(words, <<" ">>) ELSE segment_text

ClaimText(segment_text) ==
    LET words == Take(SplitWs(segment_text), 2)
    IN  IF words # <<>> THEN Join(words, <<" ">>) ELSE segment_text

\* variant: ids numbered from one
FormatSegId_OneBased(n) == <<"s","e","g","_">> \o ToDecimal(n + 1)

FormatSegId(n) == <<"s","e","g","_">> \o ToDecimal(n)

\* variant: the two time arguments exchanged
MakeSegment_Swapped(sid, segment_text, st, en, claim_text, cid) ==
    [id         |-> FormatSegId(sid),
     text       |-> segment_text,
     startTime  |-> en,
     endTime    |-> st,
     claim      |-> claim_text,
     claimIndex |-> cid]

MakeSegment(sid, segment_text, st, en, claim_text, cid) ==
    [id         |-> FormatSegId(sid),
     text       |-> segment_text,
     startTime  |-> st,
     endTime    |-> en,
     claim      |-> claim_text,
     claimIndex |-> cid]

(***************************************************************************)
(* Input documents: up to MaxBlocks blocks, each a run of lines            *)
(***************************************************************************)
MaxBlocks == 3

BlockSet ==
    { << <<"W","E","B","V","T","T">>, <<>> >>,
      << <<"0","0",":","0","0",":","0","0",".","0","0","0"," ","-","-",">"," ","0","0",":","0","0",":","0","3",".","0","0","0">>, <<"H","e","l","l","o"," ","w","o","r","l","d">>, <<>> >>,
      << <<"0","0",":","0","0",":","0","3",".","0","0","0"," ","-","-",">"," ","0","0",":","0","0",":","0","7",".","0","0","0">>, <<"S","e","c","o","n","d"," ","l","i","n","e">>, <<>> >>,
      << <<"0","0",":","0","3"," ","-","-",">"," ","0","0",":","0","9">>, <<"H","i">>, <<>> >>,
      << <<"0","0",":","0","3"," ","-","-",">"," ","0","0",":","0","5"," ","a","l","i","g","n",":","s","t","a","r","t">>, <<"<","c",">">>, <<"a"," "," ","b">>, <<>> >>,
      << <<"0","0",":","0","9"," ","-","-",">"," ","0","0",":","0","3">>, <<"<","b",">","Y","e","s">>, <<"o","k">>, <<>> >>,
      << <<"x","x"," ","-","-",">"," ","0","0",":","0","5">>, <<"0","0",":","0","1"," ","-","-",">"," ","0","0",":","0","2">>, <<"h","e","y">>, <<>> >>,
      << <<" ","0","0",":","0","5"," ","-","-",">"," ","0","0",":","0","6">>, <<"<","c",".","c","o","l","o","r","E","5","E","5","E","5",">">>, <<>> >> }

RECURSIVE Concat(_)
Concat(seqs) == IF seqs = <<>> THEN <<>> ELSE seqs[1] \o Concat(Tail(seqs))

\* the text of a document: every line of every block, each ended by a newline
DocOf(blocks) ==
    Concat([b \in 1..Len(blocks) |->
              Concat([l \in 1..Len(blocks[b]) |-> blocks[b][l] \o <<"\n">>])])

Documents ==
    UNION { {DocOf(bs) : bs \in [1..n -> BlockSet]} : n \in 0..MaxBlocks }

(***************************************************************************)
(* State of one invocation of parse_vtt_captions                           *)
(***************************************************************************)
VARIABLES
    vtt_content,            \* the argument
    lines,                  \* vtt_content.strip().split("\n")
    i,                      \* the cursor of both loops (0-based)
    pc,                     \* position in the function
    raw_captions,           \* the extracted cues
    start_time, end_time,   \* timestamps of the cue being read
    caption_text,           \* retained body lines of the cue being read
    segments,               \* the emitted segments
    segment_id, claim_id,   \* the two counters
    current_segment_start, current_segment_text, current_segment_end,
    \* history variables (not in the source)
    warned,                 \* cursors at which logger.warning was called
    timing_at,              \* cursor of the timing line of the cue being read
    caption_line,           \* per extracted cue, the cursor of its timing line
    current_segment_cues,   \* cursors of the cues folded into the open segment
    segment_cues,           \* per emitted segment, the cursors of its cues
    \* one call of parse_vtt_timestamp, checked on its own
    ts_input,               \* the argument timestamp_str
    ts_fields,              \* the fields the argument was written from
    ts_result,              \* the returned value or the error
    ts_pc                   \* "idle", "called", "returned" or "raised"

tsVars == <<ts_input, ts_fields, ts_result, ts_pc>>

\* several calls of parse_vtt_captions, in sequence and on two threads
VARIABLES
    running,                \* the thread whose call the variables above hold
    parked,                 \* the call of the thread that is not running
    calls,                  \* the number of calls made so far
    alone,                  \* what the first call, which ran alone, returned
    preempted               \* threads whose present call was switched out

concVars == <<running, parked, calls, alone, preempted>>

\* the cookie file of get_cookie_file_path (transcript.py, lines 15-49);
\* a path is a positive number, 0 is None
VARIABLES
    _cookie_file_path,      \* the module's global
    YOUTUBE_COOKIES_BASE64, \* settings.YOUTUBE_COOKIES_BASE64, by what it decodes to
    temp_files,             \* the files that exist in the temp directory
    mkstemp_count,          \* the number of files mkstemp has created
    cookie_calls,           \* the number of calls of get_cookie_file_path
    cookie_returned         \* what the last call returned

cookieVars == <<_cookie_file_path, YOUTUBE_COOKIES_BASE64, temp_files,
                mkstemp_count, cookie_calls, cookie_returned>>

\* one request to POST /transcript (transcript.py, lines 52-158)
VARIABLES
    h_pc,                   \* position in get_transcript
    info,                   \* what ydl.extract_info returned
    subtitles,              \* the chosen list of subtitle tracks
    vtt_subtitle,           \* the chosen track
    h_raised,               \* the first exception raised inside the outer try
    h_result                \* what the client receives

handlerVars == <<h_pc, info, subtitles, vtt_subtitle, h_raised, h_result>>

\* one call of an analysis function (analysis_service.py)
VARIABLES
    a_pc,                   \* position in the function
    a_function,             \* "video" or "text"
    a_input,                \* the arguments
    user_payload,           \* what is sent to the model
    raw,                    \* the reply of the model
    data,                   \* the decoded reply, or the fallback
    sources_list,           \* one entry per claim searched
    searches,               \* the number of calls of search_for_claim
    a_result                \* the returned response or the raised error

analysisVars == <<a_pc, a_function, a_input, user_payload, raw, data,
                  sources_list, searches, a_result>>

serviceVars == <<cookieVars, handlerVars, analysisVars>>

\* what a step of parse_vtt_captions leaves alone
otherVars == <<tsVars, concVars, serviceVars>>

\* the variables of one call of parse_vtt_captions
frameVars == <<vtt_content, lines, i, pc, raw_captions, start_time, end_time,
               caption_text, segments, segment_id, claim_id,
               current_segment_start, current_segment_text, current_segment_end,
               warned, timing_at, caption_line, current_segment_cues, segment_cues>>

vars == <<frameVars, otherVars>>

extractVars == <<raw_captions, start_time, end_time, caption_text,
                 warned, timing_at, caption_line>>

groupVars == <<segments, segment_id, claim_id, current_segment_start,
               current_segment_text, current_segment_end,
               current_segment_cues, segment_cues>>

\* the state at the call of parse_vtt_captions(doc)
Called(doc) ==
    /\ vtt_content = doc
    /\ lines = <<>>
    /\ i = 0
    /\ pc = "start"
    /\ raw_captions = <<>>
    /\ start_time = 0
    /\ end_time = 0
    /\ caption_text = <<>>
    /\ segments = <<>>
    /\ segment_id = 0
    /\ claim_id = 0
    /\ current_segment_start = 0
    /\ current_segment_text = <<>>
    /\ current_segment_end = 0
    /\ warned = {}
    /\ timing_at = 0
    /\ caption_line = <<>>
    /\ current_segment_cues = <<>>
    /\ segment_cues = <<>>

\* no call of parse_vtt_timestamp on its own
TsIdle ==
    /\ ts_input = <<>>
    /\ ts_fields = <<>>
    /\ ts_result = [ok |-> FALSE, val |-> 0]
    /\ ts_pc = "idle"

\* one thread, its first call
OneCall ==
    /\ running = 1
    /\ parked = [pc |-> "none"]
    /\ calls = 1
    /\ alone = [set |-> FALSE, doc |-> <<>>, segments |-> <<>>]
    /\ preempted = {}

\* no cookies configured and no file made
CookieIdle ==
    /\ _cookie_file_path = 0
    /\ YOUTUBE_COOKIES_BASE64 = "empty"
    /\ temp_files = {}
    /\ mkstemp_count = 0
    /\ cookie_calls = 0
    /\ cookie_returned = 0

\* no request
HandlerIdle ==
    /\ h_pc = "idle"
    /\ info = [kind |-> "nothing"]
    /\ subtitles = <<>>
    /\ vtt_subtitle = [kind |-> "nothing"]
    /\ h_raised = [kind |-> "nothing"]
    /\ h_result = [kind |-> "nothing"]

\* no analysis
AnalysisIdle ==
    /\ a_pc = "idle"
    /\ a_function = "none"
    /\ a_input = [kind |-> "nothing"]
    /\ user_payload = [kind |-> "nothing"]
    /\ raw = [kind |-> "nothing"]
    /\ data = [kind |-> "nothing"]
    /\ sources_list = <<>>
    /\ searches = 0
    /\ a_result = [kind |-> "nothing"]

ServicesIdle ==
    /\ CookieIdle
    /\ HandlerIdle
    /\ AnalysisIdle

Init ==
    /\ \E doc \in Documents : Called(doc)
    /\ TsIdle
    /\ OneCall
    /\ ServicesIdle

\* the stripped line under the cursor
CurLine == Strip(lines[i + 1])

(***************************************************************************)
(* Cue extraction                                                          *)
(***************************************************************************)
SplitLines ==
    /\ pc = "start"
    /\ lines' = SplitOn(Strip(vtt_content), <<"\n">>)
    /\ i' = 0
    /\ pc' = "scan"
    /\ UNCHANGED <<vtt_content, extractVars, groupVars>>
    /\ UNCHANGED otherVars

SkipLine ==
    /\ pc = "scan"
    /\ i < Len(lines)
    /\ Skippable(CurLine)
    /\ i' = i + 1
    /\ UNCHANGED <<vtt_content, lines, pc, extractVars, groupVars>>
    /\ UNCHANGED otherVars

TimingLine ==
    /\ pc = "scan"
    /\ i < Len(lines)
    /\ ~Skippable(CurLine)
    /\ TimingParse(CurLine).ok
    /\ start_time' = TimingParse(CurLine).start_time
    /\ end_time' = TimingParse(CurLine).end_time
    /\ caption_text' = <<>>
    /\ timing_at' = i
    /\ i' = i + 1
    /\ pc' = "body"
    /\ UNCHANGED <<vtt_content, lines, raw_captions, warned, caption_line, groupVars>>
    /\ UNCHANGED otherVars

\* the except branch: the warning is logged and the cursor moves past the
\* timing line only
TimingError ==
    /\ pc = "scan"
    /\ i < Len(lines)
    /\ ~Skippable(CurLine)
    /\ ~TimingParse(CurLine).ok
    /\ warned' = warned \cup {i}
    /\ i' = i + 1
    /\ UNCHANGED <<vtt_content, lines, pc, raw_captions, start_time, end_time,
                   caption_text, timing_at, caption_line, groupVars>>
    /\ UNCHANGED otherVars

BodyLine ==
    /\ pc = "body"
    /\ i < Len(lines)
    /\ BodyContinues(CurLine)
    /\ caption_text' = IF RetainBodyLine(CurLine)
                       THEN Append(caption_text, CurLine)
                       ELSE caption_text
    /\ i' = i + 1
    /\ UNCHANGED <<vtt_content, lines, pc, raw_captions, start_time, end_time,
                   warned, timing_at, caption_line, groupVars>>
    /\ UNCHANGED otherVars

EndCue ==
    /\ pc = "body"
    /\ ~(i < Len(lines) /\ BodyContinues(CurLine))
    /\ IF HasText(caption_text)
       THEN /\ raw_captions' = Append(raw_captions,
                                      MakeCaption(caption_text, start_time, end_time))
            /\ caption_line' = Append(caption_line, timing_at)
       ELSE UNCHANGED <<raw_captions, caption_line>>
    /\ i' = i + 1
    /\ pc' = "scan"
    /\ UNCHANGED <<vtt_content, lines, start_time, end_time, caption_text,
                   warned, timing_at, groupVars>>
    /\ UNCHANGED otherVars

(***************************************************************************)
(* Grouping into segments                                                  *)
(***************************************************************************)
StartGrouping ==
    /\ pc = "scan"
    /\ ~(i < Len(lines))
    /\ segments' = <<>>
    /\ segment_id' = 0
    /\ claim_id' = 0
    /\ IF raw_captions = <<>>
       THEN pc' = "done" /\ UNCHANGED i
       ELSE pc' = "group" /\ i' = 0
    /\ UNCHANGED <<vtt_content, lines, extractVars, current_segment_start,
                   current_segment_text, current_segment_end,
                   current_segment_cues, segment_cues>>
    /\ UNCHANGED otherVars

OpenSegment ==
    /\ pc = "group"
    /\ i < Len(raw_captions)
    /\ current_segment_start' = SegmentStartOf(raw_captions[i + 1])
    /\ current_segment_text' = <<>>
    /\ current_segment_end' = raw_captions[i + 1].endTime
    /\ current_segment_cues' = <<>>
    /\ pc' = "fold"
    /\ UNCHANGED <<vtt_content, lines, i, extractVars, segments, segment_id,
                   claim_id, segment_cues>>
    /\ UNCHANGED otherVars

\* one iteration of the inner loop; the loop is left on break or when the
\* cursor reaches the end of the cue list
FoldCue ==
    /\ pc = "fold"
    /\ i < Len(raw_captions)
    /\ LET caption  == raw_captions[i + 1]
           duration == current_segment_end' - current_segment_start
       IN  /\ current_segment_text' = Append(current_segment_text, caption.text)
           /\ current_segment_end' = SegmentEndOf(caption)
           /\ current_segment_cues' = Append(current_segment_cues, i)
           /\ i' = NextCursor(i)
           /\ pc' = IF ShouldBreak(duration, i', Len(raw_captions))
                       \/ ~(i' < Len(raw_captions))
                    THEN "emit" ELSE "fold"
    /\ UNCHANGED <<vtt_content, lines, extractVars, segments, segment_id,
                   claim_id, current_segment_start, segment_cues>>
    /\ UNCHANGED otherVars

EmitSegment ==
    /\ pc = "emit"
    /\ IF current_segment_text # <<>>
       THEN LET segment_text == Join(current_segment_text, <<" ">>)
            IN  /\ segments' = Append(segments,
                       MakeSegment(segment_id, segment_text, current_segment_start,
                                   current_segment_end, ClaimText(segment_text),
                                   claim_id))
                /\ segment_cues' = Append(segment_cues, current_segment_cues)
                /\ claim_id' = claim_id + 1
                /\ segment_id' = segment_id + 1
       ELSE UNCHANGED <<segments, segment_cues, claim_id, segment_id>>
    /\ pc' = "group"
    /\ UNCHANGED <<vtt_content, lines, i, extractVars, current_segment_start,
                   current_segment_text, current_segment_end, current_segment_cues>>
    /\ UNCHANGED otherVars

Return ==
    /\ pc = "group"
    /\ ~(i < Len(raw_captions))
    /\ pc' = "done"
    /\ UNCHANGED <<vtt_content, lines, i, extractVars, groupVars>>
    /\ UNCHANGED otherVars

Next ==
    \/ SplitLines
    \/ SkipLine
    \/ TimingLine
    \/ TimingError
    \/ BodyLine
    \/ EndCue
    \/ StartGrouping
    \/ OpenSegment
    \/ FoldCue
    \/ EmitSegment
    \/ Return

Spec == Init /\ [][Next]_vars

TypeOK ==
    /\ pc \in {"idle", "start", "scan", "body", "group", "fold", "emit", "done"}
    /\ i \in Nat
    /\ Len(caption_line) = Len(raw_captions)
    /\ Len(segment_cues) = Len(segments)

(***************************************************************************)
(* Documents that exercise the cue extraction: comments, bodies that hold  *)
(* timing-like lines, malformed and empty-bodied cue blocks, cue settings, *)
(* a second arrow, signed and reversed timestamps                          *)
(***************************************************************************)
ExtractBlockSet ==
    { << <<"W","E","B","V","T","T">>, <<"K","i","n","d",":"," ","c","a","p","t","i","o","n","s">>, <<>>, <<"N","O","T","E"," ","a"," ","-","-",">"," ","b">>, <<>> >>,
      << <<"0","0",":","0","0"," ","-","-",">"," ","0","0",":","0","2">>, <<"W","E","B","V","T","T"," ","x">>, <<"0","0",":","0","1"," ","-","-",">"," ","0","0",":","0","2">>, <<"N","O","T","E"," ","y">>, <<>> >>,
      << <<"0","0",":","0","x"," ","-","-",">"," ","0","0",":","0","5">>, <<"l","o","s","t">>, <<>>, <<"0","0",":","0","7"," ","-","-",">">>, <<"n","o","n","e">>, <<>> >>,
      << <<"0","0",":","0","5"," ","-","-",">"," ","0","0",":","0","6">>, <<"<","c",">">>, <<>>, <<"0","0",":","0","6"," ","-","-",">"," ","0","0",":","0","7">>, <<>> >>,
      << <<"0","0",":","0","2"," ","-","-",">"," ","0","0",":","0","4"," ","a","l","i","g","n",":","s","t","a","r","t"," ","p","o","s","i","t","i","o","n",":","0","%">>, <<"H","i">>, <<>> >>,
      << <<"0","0",":","0","2"," ","-","-",">"," ","0","0",":","0","4">>, <<"H","i">>, <<>> >>,
      << <<"0","0",":","0","4"," ","-","-",">"," ","0","0",":","0","6","-","-",">","x">>, <<"o","d","d">>, <<>> >>,
      << <<"0","0",":","-","0","5"," ","-","-",">"," ","0","0",":","0","3">>, <<"n","e","g">>, <<>>, <<"0","0",":","0","9"," ","-","-",">"," ","0","0",":","0","3">>, <<"r","e","v">>, <<>> >> }

ExtractDocuments ==
    UNION { {DocOf(bs) : bs \in [1..n -> ExtractBlockSet]} : n \in 0..MaxBlocks }

InitExtract ==
    /\ \E doc \in ExtractDocuments : Called(doc)
    /\ TsIdle
    /\ OneCall
    /\ ServicesIdle

SpecExtract == InitExtract /\ [][Next]_vars

(***************************************************************************)
(* parse_vtt_timestamp called on its own                                   *)
(***************************************************************************)
MaxFields == 4

\* the fields timestamps are written from: the text of the field, whether it
\* is a decimal numeral, and its value in milliseconds
FieldTable ==
    << [str |-> <<"0","0">>,     numeric |-> TRUE,  val |-> 0],
       [str |-> <<"0","1">>,     numeric |-> TRUE,  val |-> 1000],
       [str |-> <<"0","2">>,     numeric |-> TRUE,  val |-> 2000],
       [str |-> <<"0","5",".","0","0","0">>, numeric |-> TRUE,  val |-> 5000],
       [str |-> <<"0","3",".","5","0","0">>, numeric |-> TRUE,  val |-> 3500],
       [str |-> <<"3","0",".","2","5","0">>, numeric |-> TRUE,  val |-> 30250],
       [str |-> <<"x","x">>,     numeric |-> FALSE, val |-> 0],
       [str |-> <<>>,        numeric |-> FALSE, val |-> 0] >>

\* the timestamp made of the chosen fields, separated by colons
WriteTimestamp(fs) ==
    Join([k \in 1..Len(fs) |-> FieldTable[fs[k]].str], <<":">>)

InitTs ==
    /\ Called(<<>>)
    /\ \E n \in 1..MaxFields :
          \E fs \in [1..n -> 1..Len(FieldTable)] :
              /\ ts_fields = fs
              /\ ts_input = WriteTimestamp(fs)
    /\ ts_result = [ok |-> FALSE, val |-> 0]
    /\ ts_pc = "called"
    /\ OneCall
    /\ ServicesIdle

TsReturn ==
    /\ ts_pc = "called"
    /\ parse_vtt_timestamp(ts_input).ok
    /\ ts_result' = parse_vtt_timestamp(ts_input)
    /\ ts_pc' = "returned"
    /\ UNCHANGED <<frameVars, concVars, serviceVars, ts_input, ts_fields>>

\* ValueError leaves the function
TsRaise ==
    /\ ts_pc = "called"
    /\ ~parse_vtt_timestamp(ts_input).ok
    /\ ts_result' = parse_vtt_timestamp(ts_input)
    /\ ts_pc' = "raised"
    /\ UNCHANGED <<frameVars, concVars, serviceVars, ts_input, ts_fields>>

NextTs ==
    \/ TsReturn
    \/ TsRaise

SpecTs == InitTs /\ [][NextTs]_vars

(***************************************************************************)
(* Calls in sequence and on two threads.  Every name the function assigns  *)
(* is a local of the call (lines 174-262); the module holds only router    *)
(* and logger (lines 11-13).  A thread switch therefore exchanges the      *)
(* whole frame.                                                            *)
(***************************************************************************)
MaxCalls == 3

ConcBlockSet ==
    { << <<"1">>, <<"0","0",":","0","3"," ","-","-",">"," ","0","0",":","0","9">>, <<"H","i">>, <<>> >>,
      << <<"x","x"," ","-","-",">"," ","0","0",":","0","5">>, <<"0","0",":","0","1"," ","-","-",">"," ","0","0",":","0","2">>, <<"h","e","y">>, <<>> >> }

\* each block twice
ConcDocuments == {DocOf(<<b, b>>) : b \in ConcBlockSet}

\* the locals of the running call
Frame ==
    [vtt_content |-> vtt_content, lines |-> lines, i |-> i, pc |-> pc,
     raw_captions |-> raw_captions, start_time |-> start_time,
     end_time |-> end_time, caption_text |-> caption_text,
     segments |-> segments, segment_id |-> segment_id, claim_id |-> claim_id,
     current_segment_start |-> current_segment_start,
     current_segment_text |-> current_segment_text,
     current_segment_end |-> current_segment_end,
     warned |-> warned, timing_at |-> timing_at, caption_line |-> caption_line,
     current_segment_cues |-> current_segment_cues,
     segment_cues |-> segment_cues]

\* the locals at the call of parse_vtt_captions(doc)
NewFrame(doc) ==
    [vtt_content |-> doc, lines |-> <<>>, i |-> 0, pc |-> "start",
     raw_captions |-> <<>>, start_time |-> 0, end_time |-> 0,
     caption_text |-> <<>>, segments |-> <<>>, segment_id |-> 0, claim_id |-> 0,
     current_segment_start |-> 0, current_segment_text |-> <<>>,
     current_segment_end |-> 0, warned |-> {}, timing_at |-> 0,
     caption_line |-> <<>>, current_segment_cues |-> <<>>,
     segment_cues |-> <<>>]

\* variant: segment_id and claim_id are names of the module, shared by all
\* calls
Resume_SharedCounters(f) ==
    /\ vtt_content' = f.vtt_content
    /\ lines' = f.lines
    /\ i' = f.i
    /\ pc' = f.pc
    /\ raw_captions' = f.raw_captions
    /\ start_time' = f.start_time
    /\ end_time' = f.end_time
    /\ caption_text' = f.caption_text
    /\ segments' = f.segments
    /\ UNCHANGED <<segment_id, claim_id>>
    /\ current_segment_start' = f.current_segment_start
    /\ current_segment_text' = f.current_segment_text
    /\ current_segment_end' = f.current_segment_end
    /\ warned' = f.warned
    /\ timing_at' = f.timing_at
    /\ caption_line' = f.caption_line
    /\ current_segment_cues' = f.current_segment_cues
    /\ segment_cues' = f.segment_cues

\* the thread that owns frame f runs
Resume(f) ==
    /\ vtt_content' = f.vtt_content
    /\ lines' = f.lines
    /\ i' = f.i
    /\ pc' = f.pc
    /\ raw_captions' = f.raw_captions
    /\ start_time' = f.start_time
    /\ end_time' = f.end_time
    /\ caption_text' = f.caption_text
    /\ segments' = f.segments
    /\ segment_id' = f.segment_id
    /\ claim_id' = f.claim_id
    /\ current_segment_start' = f.current_segment_start
    /\ current_segment_text' = f.current_segment_text
    /\ current_segment_end' = f.current_segment_end
    /\ warned' = f.warned
    /\ timing_at' = f.timing_at
    /\ caption_line' = f.caption_line
    /\ current_segment_cues' = f.current_segment_cues
    /\ segment_cues' = f.segment_cues

InitConc ==
    /\ \E doc \in ConcDocuments : Called(doc)
    /\ TsIdle
    /\ OneCall
    /\ ServicesIdle

\* the running thread, whose call has returned, calls again
Invoke ==
    /\ pc = "done"
    /\ calls < MaxCalls
    /\ \E doc \in ConcDocuments : Resume(NewFrame(doc))
    /\ calls' = calls + 1
    /\ alone' = IF alone.set THEN alone
                ELSE [set |-> TRUE, doc |-> vtt_content, segments |-> segments]
    /\ preempted' = preempted \ {running}
    /\ UNCHANGED <<running, parked, tsVars, serviceVars>>

\* a second thread starts and makes its first call while the first thread is
\* anywhere in a call of its own
Spawn ==
    /\ alone.set
    /\ parked.pc = "none"
    /\ calls < MaxCalls
    /\ \E doc \in ConcDocuments : Resume(NewFrame(doc))
    /\ parked' = Frame
    /\ running' = 2
    /\ calls' = calls + 1
    /\ preempted' = IF pc \in {"start", "done"} THEN preempted
                    ELSE preempted \cup {running}
    /\ UNCHANGED <<alone, tsVars, serviceVars>>

\* the scheduler runs the other thread
Switch ==
    /\ parked.pc # "none"
    /\ Resume(parked)
    /\ parked' = Frame
    /\ running' = 3 - running
    /\ preempted' = IF pc \in {"start", "done"} THEN preempted
                    ELSE preempted \cup {running}
    /\ UNCHANGED <<calls, alone, tsVars, serviceVars>>

NextConc ==
    \/ Next
    \/ Invoke
    \/ Spawn
    \/ Switch

SpecConc == InitConc /\ [][NextConc]_vars

(***************************************************************************)
(* get_cookie_file_path (transcript.py, lines 15-49).  The setting is read *)
(* from the environment once, when config.py is imported, and no code      *)
(* assigns it afterwards.  Files of the temp directory can be removed from *)
(* outside the process.                                                    *)
(***************************************************************************)
MaxCookieCalls == 4

\* settings.YOUTUBE_COOKIES_BASE64 by what lines 31 and 37 make of it:
\* empty, text that decodes, text on which b64decode raises, bytes on which
\* decode('utf-8') raises
CookieSettings == {"empty", "text", "bad_padding", "bad_utf8"}

\* variant: the cached path is never used
CacheHit_Never == FALSE

\* line 27
CacheHit == _cookie_file_path # 0 /\ _cookie_file_path \in temp_files

\* line 31
NotConfigured == YOUTUBE_COOKIES_BASE64 = "empty"

\* line 37 raises
DecodeFails == YOUTUBE_COOKIES_BASE64 \in {"bad_padding", "bad_utf8"}

\* the name mkstemp chooses: one that no file has had
NewPath == mkstemp_count + 1

\* the body of get_cookie_file_path
CookieBody ==
    /\ cookie_calls < MaxCookieCalls
    /\ cookie_calls' = cookie_calls + 1
    /\ UNCHANGED YOUTUBE_COOKIES_BASE64
    /\ IF CacheHit
       THEN /\ cookie_returned' = _cookie_file_path
            /\ UNCHANGED <<_cookie_file_path, temp_files, mkstemp_count>>
       ELSE IF NotConfigured \/ DecodeFails
       THEN /\ cookie_returned' = 0
            /\ UNCHANGED <<_cookie_file_path, temp_files, mkstemp_count>>
       ELSE \/ \* mkstemp raises OSError
               /\ cookie_returned' = 0
               /\ UNCHANGED <<_cookie_file_path, temp_files, mkstemp_count>>
            \/ \* the file is made and writing it raises OSError
               /\ temp_files' = temp_files \cup {NewPath}
               /\ mkstemp_count' = mkstemp_count + 1
               /\ cookie_returned' = 0
               /\ UNCHANGED _cookie_file_path
            \/ \* lines 40-46
               /\ temp_files' = temp_files \cup {NewPath}
               /\ mkstemp_count' = mkstemp_count + 1
               /\ _cookie_file_path' = NewPath
               /\ cookie_returned' = NewPath

get_cookie_file_path ==
    /\ CookieBody
    /\ UNCHANGED <<frameVars, tsVars, concVars, handlerVars, analysisVars>>

\* a file of the temp directory is removed from outside
RemoveTempFile ==
    /\ \E path \in temp_files : temp_files' = temp_files \ {path}
    /\ UNCHANGED <<_cookie_file_path, YOUTUBE_COOKIES_BASE64, mkstemp_count,
                   cookie_calls, cookie_returned>>
    /\ UNCHANGED <<frameVars, tsVars, concVars, handlerVars, analysisVars>>

InitCookie ==
    /\ Called(<<>>)
    /\ TsIdle
    /\ OneCall
    /\ HandlerIdle
    /\ AnalysisIdle
    /\ _cookie_file_path = 0
    /\ YOUTUBE_COOKIES_BASE64 \in CookieSettings
    /\ temp_files = {}
    /\ mkstemp_count = 0
    /\ cookie_calls = 0
    /\ cookie_returned = 0

NextCookie ==
    \/ get_cookie_file_path
    \/ RemoveTempFile

SpecCookie == InitCookie /\ [][NextCookie]_vars

(***************************************************************************)
(* get_transcript (transcript.py, lines 52-158): one request.  What yt-dlp *)
(* and the subtitle server answer is chosen by the environment.            *)
(***************************************************************************)
\* the subtitle tracks yt-dlp can list
VttTrack == [ext |-> "vtt", url |-> "vtt_url"]

JsonTrack == [ext |-> "json3", url |-> "json3_url"]

\* info['subtitles'] and info['automatic_captions']: whether the key 'en' is
\* there, and its list
TrackLists ==
    { [en |-> FALSE, tracks |-> <<>>],
      [en |-> TRUE, tracks |-> <<>>],
      [en |-> TRUE, tracks |-> <<JsonTrack>>],
      [en |-> TRUE, tracks |-> <<JsonTrack, VttTrack>>] }

\* what ydl.extract_info can return: None, or a dict whose title is a string
\* or None
InfoSet ==
    {[kind |-> "None"]} \cup
    [kind : {"dict"}, title : {"T", "None"},
     subtitles : TrackLists, automatic_captions : TrackLists]

\* what the subtitle server can send
HandlerBlockSet ==
    { << <<"W","E","B","V","T","T">>, <<>> >>,
      << <<"0","0",":","0","3"," ","-","-",">"," ","0","0",":","0","9">>, <<"H","i">>, <<>> >>,
      << <<"x","x"," ","-","-",">"," ","0","0",":","0","5">>, <<"l","o","s","t">>, <<>> >> }

HandlerDocuments ==
    {<<>>} \cup {DocOf(<<b>>) : b \in HandlerBlockSet}
           \cup {DocOf(<<a, b>>) : a \in HandlerBlockSet, b \in HandlerBlockSet}

HTTPException(status_code, detail) ==
    [kind |-> "HTTPException", status_code |-> status_code, detail |-> detail]

\* any exception that is not an HTTPException
OtherException(name) ==
    [kind |-> "Exception", status_code |-> 0, detail |-> name]

\* variant: the catch-all handler of line 153 takes every exception
Deliver_RewrapAll(exc) ==
    [kind |-> "error", status |-> 500, detail |-> "Error fetching transcript"]

\* lines 151-158: an HTTPException is raised again, any other exception
\* becomes the 500 of the catch-all handler
Deliver(exc) ==
    IF exc.kind = "HTTPException"
    THEN [kind |-> "error", status |-> exc.status_code, detail |-> exc.detail]
    ELSE [kind |-> "error", status |-> 500, detail |-> "Error fetching transcript"]

\* lines 96-104
ChooseSubtitles(inf) ==
    IF inf.subtitles.en THEN inf.subtitles.tracks
    ELSE IF inf.automatic_captions.en THEN inf.automatic_captions.tracks
    ELSE <<>>

\* lines 114-122: the first vtt track, or else the first track
ChooseTrack(subs) ==
    IF \E k \in 1..Len(subs) : subs[k].ext = "vtt"
    THEN subs[CHOOSE k \in 1..Len(subs) :
                 /\ subs[k].ext = "vtt"
                 /\ \A j \in 1..(k - 1) : subs[j].ext # "vtt"]
    ELSE subs[1]

\* no call of parse_vtt_captions has been made
NoCall ==
    /\ vtt_content = <<>>
    /\ lines = <<>>
    /\ i = 0
    /\ pc = "idle"
    /\ raw_captions = <<>>
    /\ start_time = 0
    /\ end_time = 0
    /\ caption_text = <<>>
    /\ segments = <<>>
    /\ segment_id = 0
    /\ claim_id = 0
    /\ current_segment_start = 0
    /\ current_segment_text = <<>>
    /\ current_segment_end = 0
    /\ warned = {}
    /\ timing_at = 0
    /\ caption_line = <<>>
    /\ current_segment_cues = <<>>
    /\ segment_cues = <<>>

handlerRest == <<tsVars, concVars, analysisVars>>

\* lines 65-79
HStart ==
    /\ h_pc = "idle"
    /\ CookieBody
    /\ h_pc' = "ydl"
    /\ UNCHANGED <<info, subtitles, vtt_subtitle, h_raised, h_result>>
    /\ UNCHANGED <<frameVars, handlerRest>>

\* an exception leaves the outer try block
Raise(exc) ==
    /\ h_raised' = exc
    /\ h_pc' = "except"

\* line 81: the constructor can fail, for one on a cookie file it cannot load
HYoutubeDL ==
    /\ h_pc = "ydl"
    /\ \/ /\ Raise(OtherException("CookieLoadError"))
       \/ /\ h_pc' = "extract"
          /\ UNCHANGED h_raised
    /\ UNCHANGED <<info, subtitles, vtt_subtitle, h_result>>
    /\ UNCHANGED <<frameVars, cookieVars, handlerRest>>

\* lines 82-86
HExtractInfo ==
    /\ h_pc = "extract"
    /\ \/ /\ Raise(HTTPException(404, "Video not found"))
          /\ UNCHANGED info
       \/ /\ \E inf \in InfoSet : info' = inf
          /\ h_pc' = "title"
          /\ UNCHANGED h_raised
    /\ UNCHANGED <<subtitles, vtt_subtitle, h_result>>
    /\ UNCHANGED <<frameVars, cookieVars, handlerRest>>

\* lines 88-122
HChoose ==
    /\ h_pc = "title"
    /\ IF info.kind = "None"
       THEN /\ Raise(OtherException("AttributeError"))
            /\ UNCHANGED <<subtitles, vtt_subtitle>>
       ELSE /\ subtitles' = ChooseSubtitles(info)
            /\ IF ChooseSubtitles(info) = <<>>
               THEN /\ Raise(HTTPException(404, "This video does not have English subtitles available"))
                    /\ UNCHANGED vtt_subtitle
               ELSE /\ vtt_subtitle' = ChooseTrack(ChooseSubtitles(info))
                    /\ h_pc' = "download"
                    /\ UNCHANGED h_raised
    /\ UNCHANGED <<info, h_result>>
    /\ UNCHANGED <<frameVars, cookieVars, handlerRest>>

\* lines 125-138: the download fails, or its text goes to parse_vtt_captions
HDownload ==
    /\ h_pc = "download"
    /\ \/ /\ Raise(HTTPException(500, "Failed to download subtitles"))
          /\ UNCHANGED frameVars
       \/ /\ \E doc \in HandlerDocuments : Resume(NewFrame(doc))
          /\ h_pc' = "parse"
          /\ UNCHANGED h_raised
    /\ UNCHANGED <<info, subtitles, vtt_subtitle, h_result>>
    /\ UNCHANGED <<cookieVars, handlerRest>>

\* lines 140-149
HCheck ==
    /\ h_pc = "parse"
    /\ pc = "done"
    /\ IF segments = <<>>
       THEN /\ Raise(HTTPException(400, "Failed to parse subtitles"))
            /\ UNCHANGED h_result
       ELSE IF info.title = "None"
       THEN /\ Raise(OtherException("ValidationError"))
            /\ UNCHANGED h_result
       ELSE /\ h_result' = [kind |-> "response", status |-> 200,
                            title |-> info.title, segments |-> segments]
            /\ h_pc' = "done"
            /\ UNCHANGED h_raised
    /\ UNCHANGED <<info, subtitles, vtt_subtitle>>
    /\ UNCHANGED <<frameVars, cookieVars, handlerRest>>

\* lines 151-158
HExcept ==
    /\ h_pc = "except"
    /\ h_result' = Deliver(h_raised)
    /\ h_pc' = "done"
    /\ UNCHANGED <<info, subtitles, vtt_subtitle, h_raised>>
    /\ UNCHANGED <<frameVars, cookieVars, handlerRest>>

InitHandler ==
    /\ NoCall
    /\ TsIdle
    /\ OneCall
    /\ HandlerIdle
    /\ AnalysisIdle
    /\ _cookie_file_path = 0
    /\ YOUTUBE_COOKIES_BASE64 \in CookieSettings
    /\ temp_files = {}
    /\ mkstemp_count = 0
    /\ cookie_calls = 0
    /\ cookie_returned = 0

NextHandler ==
    \/ HStart
    \/ HYoutubeDL
    \/ HExtractInfo
    \/ HChoose
    \/ HDownload
    \/ Next
    \/ HCheck
    \/ HExcept

SpecHandler == InitHandler /\ [][NextHandler]_vars

(***************************************************************************)
(* run_video_transcript_analysis_with_openai and                           *)
(* run_text_analysis_with_openai (analysis_service.py).  The reply of the  *)
(* model and the results of the search are chosen by the environment.  A   *)
(* float is a number of milliseconds or NaN; a comparison with NaN is      *)
(* false.  A dict is a record, a missing key a missing field; None is the  *)
(* string "None".                                                          *)
(***************************************************************************)
MaxSegments == 2

Num(ms) == [nan |-> FALSE, ms |-> ms]

NaN == [nan |-> TRUE, ms |-> 0]

\* a < b on floats
FloatLt(a, b) == ~a.nan /\ ~b.nan /\ a.ms < b.ms

\* a >= b on floats
FloatGe(a, b) == ~a.nan /\ ~b.nan /\ a.ms >= b.ms

\* line 249
MAX_DURATION_SECONDS == Num(180 * 1000)

AnalysisTimes == {Num(1000), Num(180 * 1000), Num(240 * 1000), NaN}

\* the segments of a request: TranscriptSegment of schemas/video_analysis.py
InputSegment(n, t, c) ==
    [id |-> FormatSegId(n - 1), text |-> <<"t">>, startTime |-> t,
     endTime |-> IF t.nan THEN t ELSE Num(t.ms + 5000),
     claim |-> c, claimIndex |-> IF c = "None" THEN "None" ELSE "0"]

InputSegmentLists ==
    UNION { { [k \in 1..n |-> InputSegment(k, ts[k], cs[k])] :
                ts \in [1..n -> AnalysisTimes], cs \in [1..n -> {"None", "c"}] } :
            n \in 0..MaxSegments }

InputTexts == {<<>>, <<"a","b","c">>}

\* d.get(key, default)
Get(d, key, default) == IF key \in DOMAIN d THEN d[key] ELSE default

\* d[key] = value
SetKey(d, key, value) ==
    [k \in DOMAIN d \cup {key} |-> IF k = key THEN value ELSE d[k]]

\* lines 238-246
SegmentData(seg) ==
    [id |-> seg.id, text |-> seg.text,
     startTime |-> seg.startTime, endTime |-> seg.endTime]

AllSegmentsData(segs) == [k \in 1..Len(segs) |-> SegmentData(segs[k])]

\* lines 250-253
SegmentsToAnalyze(all_segments_data) ==
    SelectSeq(all_segments_data,
              LAMBDA seg : FloatLt(seg.startTime, MAX_DURATION_SECONDS))

\* variant: the segment that starts at 180 seconds is left out
RemainingSegments_After(all_segments_data) ==
    SelectSeq(all_segments_data,
              LAMBDA seg : FloatLt(MAX_DURATION_SECONDS, seg.startTime))

\* lines 289-292
RemainingSegments(all_segments_data) ==
    SelectSeq(all_segments_data,
              LAMBDA seg : FloatGe(seg.startTime, MAX_DURATION_SECONDS))

\* the claims a reply can list
ReplyClaims ==
    { <<>>,
      << [claim |-> "c1", claimText |-> "t1", confidenceReason |-> "r1",
          ratingPercent |-> 40, searchQuery |-> "q1"] >>,
      << [claim |-> "c1", claimText |-> "t1", confidenceReason |-> "r1",
          ratingPercent |-> 40, searchQuery |-> "q1"],
         [claim |-> "c2"] >> }

\* a segment of the payload as the model marks it
Marked(seg) ==
    [id |-> seg.id, text |-> seg.text, startTime |-> seg.startTime,
     endTime |-> seg.endTime, claim |-> "c1", claimIndex |-> "0"]

\* the lists of segments a reply can hold for a payload: the payload, the
\* payload marked with a claim, the payload reversed, nothing
ReplySegments(payload_segments) ==
    { payload_segments,
      [k \in 1..Len(payload_segments) |-> Marked(payload_segments[k])],
      [k \in 1..Len(payload_segments) |->
          payload_segments[Len(payload_segments) + 1 - k]],
      <<>> }

\* what the model can reply to the video payload: text that is not JSON,
\* JSON that is not an object, an object without the key "segments", an
\* object with it
VideoReplies(payload) ==
    { [kind |-> "invalid"], [kind |-> "array"] } \cup
    { [kind |-> "object", videoId |-> payload.videoId, confidenceScores |-> 70,
       reasoning |-> "r", claims |-> cl] : cl \in ReplyClaims } \cup
    { [kind |-> "object", videoId |-> payload.videoId, confidenceScores |-> 70,
       reasoning |-> "r", segments |-> sg, claims |-> cl] :
         sg \in ReplySegments(payload.segments), cl \in ReplyClaims }

\* what the model can reply to the text payload
TextReplies(payload) ==
    { [kind |-> "invalid"], [kind |-> "array"] } \cup
    { [kind |-> "object", confidenceScores |-> 70, reasoning |-> "r",
       htmlContent |-> <<"h">>, claims |-> cl] : cl \in ReplyClaims } \cup
    { [kind |-> "object", confidenceScores |-> 70, claims |-> <<>>] }

\* what search_for_claim can return (search_service.py, lines 42-77)
SearchResults ==
    { <<>>,
      << [url |-> "u", title |-> "s", snippet |-> "n", score |-> 900,
          published_date |-> "d"] >>,
      << [url |-> "u", title |-> "s", snippet |-> "n", score |-> 300,
          published_date |-> "d"] >> }

\* lines 109-115 and 320-326; scores are in thousandths
Stance(score) ==
    IF score > 800 THEN "Mostly Support" ELSE "Partially Support"

\* lines 105-135 and 318-345
SourcesOf(claim_data, search_results) ==
    IF search_results = <<>>
    THEN << [title |-> "No verified sources found", url |-> "",
             snippet |-> "Unable to find verified sources for this claim. Please verify independently.",
             datePosted |-> "", ratingStance |-> "Partially Support",
             claimReference |-> Get(claim_data, "claimText", "")] >>
    ELSE [k \in 1..Len(search_results) |->
            [title |-> search_results[k].title, url |-> search_results[k].url,
             snippet |-> search_results[k].snippet,
             datePosted |-> search_results[k].published_date,
             ratingStance |-> Stance(search_results[k].score),
             claimReference |-> Get(claim_data, "claimText", "")]]

\* lines 137-142 and 347-352
SourceGroup(claim_data, search_results) ==
    [claim |-> Get(claim_data, "claim", ""),
     confidenceReason |-> Get(claim_data, "confidenceReason", ""),
     ratingPercent |-> Get(claim_data, "ratingPercent", 50),
     sources |-> SourcesOf(claim_data, search_results)]

\* a dict validated as TranscriptSegment (schemas/video_analysis.py, 5-11)
AsSegment(d) ==
    [id |-> d.id, text |-> d.text, startTime |-> d.startTime,
     endTime |-> d.endTime, claim |-> Get(d, "claim", "None"),
     claimIndex |-> Get(d, "claimIndex", "None")]

AsSegments(ds) == [k \in 1..Len(ds) |-> AsSegment(ds[k])]

\* variant: the fallback holds the segments that were sent to the model
VideoFallback_SentOnly(video_id, all_segments_data) ==
    [kind |-> "object", videoId |-> video_id, confidenceScores |-> 0,
     reasoning |-> "Model returned invalid JSON.",
     segments |-> SegmentsToAnalyze(all_segments_data), sourcesList |-> <<>>]

\* lines 359-365
VideoFallback(video_id, all_segments_data) ==
    [kind |-> "object", videoId |-> video_id, confidenceScores |-> 0,
     reasoning |-> "Model returned invalid JSON.",
     segments |-> all_segments_data, sourcesList |-> <<>>]

\* lines 82-87
TextFallback(text) ==
    [kind |-> "object", confidenceScores |-> 0,
     reasoning |-> "Model returned invalid JSON.",
     htmlContent |-> text, claims |-> <<>>]

analysisRest == <<frameVars, tsVars, concVars, cookieVars, handlerVars>>

InitAnalysis ==
    /\ Called(<<>>)
    /\ TsIdle
    /\ OneCall
    /\ CookieIdle
    /\ HandlerIdle
    /\ a_pc = "called"
    /\ \/ /\ a_function = "video"
          /\ \E segs \in InputSegmentLists :
                a_input = [video_id |-> "v", segments |-> segs]
       \/ /\ a_function = "text"
          /\ \E text \in InputTexts : a_input = [text |-> text]
    /\ user_payload = [kind |-> "nothing"]
    /\ raw = [kind |-> "nothing"]
    /\ data = [kind |-> "nothing"]
    /\ sources_list = <<>>
    /\ searches = 0
    /\ a_result = [kind |-> "nothing"]

\* lines 237-262
VideoPayload ==
    /\ a_pc = "called"
    /\ a_function = "video"
    /\ user_payload' =
          [videoId |-> a_input.video_id,
           segments |-> SegmentsToAnalyze(AllSegmentsData(a_input.segments))]
    /\ a_pc' = "sent"
    /\ UNCHANGED <<a_function, a_input, raw, data, sources_list, searches, a_result>>
    /\ UNCHANGED analysisRest

\* line 65
TextPayload ==
    /\ a_pc = "called"
    /\ a_function = "text"
    /\ user_payload' = [text |-> a_input.text]
    /\ a_pc' = "sent"
    /\ UNCHANGED <<a_function, a_input, raw, data, sources_list, searches, a_result>>
    /\ UNCHANGED analysisRest

\* lines 72-77 and 269-274: run_text_analysis returns the reply of the model
ModelReply ==
    /\ a_pc = "sent"
    /\ raw' \in IF a_function = "video" THEN VideoReplies(user_payload)
                ELSE TextReplies(user_payload)
    /\ a_pc' = "replied"
    /\ UNCHANGED <<a_function, a_input, user_payload, data, sources_list,
                   searches, a_result>>
    /\ UNCHANGED analysisRest

\* lines 283-302 and 356-367
VideoLoads ==
    /\ a_pc = "replied"
    /\ a_function = "video"
    /\ CASE raw.kind = "invalid" ->
              \* JSONDecodeError: the fallback is returned
              /\ data' = VideoFallback(a_input.video_id,
                                       AllSegmentsData(a_input.segments))
              /\ a_result' =
                    [kind |-> "response",
                     videoId |-> a_input.video_id,
                     confidenceScores |-> 0,
                     reasoning |-> "Model returned invalid JSON.",
                     segments |-> AsSegments(VideoFallback(a_input.video_id,
                                    AllSegmentsData(a_input.segments)).segments),
                     sourcesList |-> <<>>]
              /\ a_pc' = "done"
         [] raw.kind = "array" ->
              \* data.get raises AttributeError, which line 356 does not catch
              /\ data' = raw
              /\ a_result' = [kind |-> "raised", error |-> "AttributeError"]
              /\ a_pc' = "done"
         [] raw.kind = "object" ->
              /\ data' = SetKey(raw, "segments",
                                 Get(raw, "segments", <<>>) \o
                                 RemainingSegments(AllSegmentsData(a_input.segments)))
              /\ a_pc' = "searching"
              /\ UNCHANGED a_result
    /\ UNCHANGED <<a_function, a_input, user_payload, raw, sources_list, searches>>
    /\ UNCHANGED analysisRest

\* lines 304-352: one turn of the loop over the claims
VideoSearch ==
    /\ a_pc = "searching"
    /\ a_function = "video"
    /\ Len(sources_list) < Len(Get(data, "claims", <<>>))
    /\ \E search_results \in SearchResults :
          sources_list' =
             Append(sources_list,
                    SourceGroup(Get(data, "claims", <<>>)[Len(sources_list) + 1],
                                search_results))
    /\ searches' = searches + 1
    /\ UNCHANGED <<a_pc, a_function, a_input, user_payload, raw, data, a_result>>
    /\ UNCHANGED analysisRest

\* lines 354 and 367
VideoReturn ==
    /\ a_pc = "searching"
    /\ a_function = "video"
    /\ Len(sources_list) = Len(Get(data, "claims", <<>>))
    /\ data' = SetKey(data, "sourcesList", sources_list)
    /\ a_result' = [kind |-> "response",
                    videoId |-> data.videoId,
                    confidenceScores |-> data.confidenceScores,
                    reasoning |-> data.reasoning,
                    segments |-> AsSegments(data.segments),
                    sourcesList |-> sources_list]
    /\ a_pc' = "done"
    /\ UNCHANGED <<a_function, a_input, user_payload, raw, sources_list, searches>>
    /\ UNCHANGED analysisRest

\* lines 79-91
TextLoads ==
    /\ a_pc = "replied"
    /\ a_function = "text"
    /\ CASE raw.kind = "invalid" ->
              /\ data' = TextFallback(a_input.text)
              /\ a_pc' = "searching"
              /\ UNCHANGED a_result
         [] raw.kind = "array" ->
              \* data.get of line 90 raises AttributeError
              /\ data' = raw
              /\ a_result' = [kind |-> "raised", error |-> "AttributeError"]
              /\ a_pc' = "done"
         [] raw.kind = "object" ->
              /\ data' = raw
              /\ a_pc' = "searching"
              /\ UNCHANGED a_result
    /\ UNCHANGED <<a_function, a_input, user_payload, raw, sources_list, searches>>
    /\ UNCHANGED analysisRest

\* lines 93-142: one turn of the loop over the claims
TextSearch ==
    /\ a_pc = "searching"
    /\ a_function = "text"
    /\ Len(sources_list) < Len(Get(data, "claims", <<>>))
    /\ \E search_results \in SearchResults :
          sources_list' =
             Append(sources_list,
                    SourceGroup(Get(data, "claims", <<>>)[Len(sources_list) + 1],
                                search_results))
    /\ searches' = searches + 1
    /\ UNCHANGED <<a_pc, a_function, a_input, user_payload, raw, data, a_result>>
    /\ UNCHANGED analysisRest

\* lines 145-150
TextReturn ==
    /\ a_pc = "searching"
    /\ a_function = "text"
    /\ Len(sources_list) = Len(Get(data, "claims", <<>>))
    /\ a_result' = [kind |-> "response",
                    confidenceScores |-> Get(data, "confidenceScores", 0),
                    reasoning |-> Get(data, "reasoning", ""),
                    htmlContent |-> Get(data, "htmlContent", a_input.text),
                    sourcesList |-> sources_list]
    /\ a_pc' = "done"
    /\ UNCHANGED <<a_function, a_input, user_payload, raw, data, sources_list,
                   searches>>
    /\ UNCHANGED analysisRest

NextAnalysis ==
    \/ VideoPayload
    \/ TextPayload
    \/ ModelReply
    \/ VideoLoads
    \/ VideoSearch
    \/ VideoReturn
    \/ TextLoads
    \/ TextSearch
    \/ TextReturn

SpecAnalysis == InitAnalysis /\ [][NextAnalysis]_vars

(***************************************************************************)
(* Properties                                                              *)
(***************************************************************************)
\* the cue under 0-based cursor c
CueAt(c) == raw_captions[c + 1]

CueSpan(c) == CueAt(c).endTime - CueAt(c).startTime

SegSpan(k) == segments[k].endTime - segments[k].startTime

\* C1: the cue groups of the emitted segments are non-empty and, concatenated
\* in emission order, give exactly the extracted cues in document order (no
\* cue dropped, duplicated or reordered); so there are at most as many
\* segments as cues.
C1_CuePartition ==
    pc = "done" =>
        /\ Len(segment_cues) = Len(segments)
        /\ \A k \in 1..Len(segment_cues) : segment_cues[k] # <<>>
        /\ Concat(segment_cues) = [k \in 1..Len(raw_captions) |-> k - 1]
        /\ Len(segments) <= Len(raw_captions)

C1_Witness ==
    /\ pc = "done"
    /\ Len(segments) >= 2
    /\ \E k \in 1..Len(segment_cues) : Len(segment_cues[k]) >= 2

\* C2: in the returned list every segment other than the last spans at
\* least five seconds.
C2_MinDuration ==
    pc = "done" =>
        \A k \in 1..(Len(segments) - 1) : SegSpan(k) >= 5 * 1000

C2_Witness ==
    /\ pc = "done"
    /\ Len(segments) >= 2
    /\ SegSpan(Len(segments)) < 5 * 1000

\* C3: the k-th emitted segment (from 0) has id "seg_k" and claimIndex k,
\* and claimIndex is the number spelled by the suffix of id.
C3_SequentialIds ==
    \A k \in 1..Len(segments) :
        /\ segments[k].id = <<"s", "e", "g", "_">> \o ToDecimal(k - 1)
        /\ segments[k].claimIndex = k - 1
        /\ AllDigits(SubSeq(segments[k].id, 5, Len(segments[k].id)))
        /\ IntOf(SubSeq(segments[k].id, 5, Len(segments[k].id))) = segments[k].claimIndex

C3_Witness ==
    /\ pc = "done"
    /\ Len(segments) >= 3

\* C4: a timing line whose timestamps cannot be parsed yields no cue for its
\* block: no extracted cue has its timing line inside the run of non-blank
\* lines that follows a timing line on which the parse error was raised.
C4_MalformedBlockSkipped ==
    \A k \in 1..Len(caption_line) :
        \A m \in warned :
            ~(/\ m < caption_line[k]
              /\ \A j \in m..caption_line[k] : Strip(lines[j + 1]) # <<>>)

\* C5: a body line is discarded exactly when it both starts with '<' and
\* ends with '>'; every other non-blank body line is retained.
C5_DiscardOnlyFullTags ==
    [][(pc = "body" /\ pc' = "body") =>
          ((caption_text' = caption_text)
             <=> (StartsWith(CurLine, <<"<">>) /\ EndsWith(CurLine, <<">">>)))]_vars

\* the extracted cues each end no earlier than they start
CuesWellTimed ==
    \A k \in 1..Len(raw_captions) :
        raw_captions[k].endTime >= raw_captions[k].startTime

\* the extracted cues start in non-decreasing order
CueStartsAscend ==
    \A k \in 1..(Len(raw_captions) - 1) :
        raw_captions[k].startTime <= raw_captions[k + 1].startTime

\* C6 as stated: every emitted segment has endTime >= startTime, for any
\* input document.
C6_AnyDocument ==
    \A k \in 1..Len(segments) : segments[k].endTime >= segments[k].startTime

\* C6 amended: every emitted segment has endTime >= startTime when every
\* extracted cue has endTime >= startTime and the cues' startTime values are
\* non-decreasing in document order.
C6_EndNotBeforeStart ==
    (CuesWellTimed /\ CueStartsAscend) =>
        \A k \in 1..Len(segments) : segments[k].endTime >= segments[k].startTime

C6_Witness ==
    /\ pc = "done"
    /\ CuesWellTimed /\ CueStartsAscend
    /\ \E k \in 1..Len(segments) :
          Len(segment_cues[k]) >= 2 /\ segments[k].endTime > segments[k].startTime

\* C7 as stated: the startTime values of the emitted segments are
\* non-decreasing, for any input document.
C7_AnyDocument ==
    \A k \in 1..(Len(segments) - 1) :
        segments[k].startTime <= segments[k + 1].startTime

\* C7 amended: the startTime values of the emitted segments are
\* non-decreasing when the startTime values of the extracted cues are
\* non-decreasing in document order.
C7_StartsAscend ==
    CueStartsAscend =>
        \A k \in 1..(Len(segments) - 1) :
            segments[k].startTime <= segments[k + 1].startTime

C7_Witness ==
    /\ pc = "done"
    /\ CueStartsAscend
    /\ Len(segments) >= 2
    /\ segments[1].startTime < segments[2].startTime

\* C8 as stated: every extracted cue whose own span is more than five
\* seconds is emitted as a segment that contains that cue alone.
C8_EveryLongCueAlone ==
    pc = "done" =>
        \A k \in 1..Len(segment_cues) :
            \A j \in 1..Len(segment_cues[k]) :
                CueSpan(segment_cues[k][j]) > 5 * 1000 => Len(segment_cues[k]) = 1

\* C8 amended: every extracted cue whose own span is more than five seconds
\* and that is the first cue folded into its segment is emitted as a segment
\* that contains that cue alone (a long cue folded into a segment opened by
\* an earlier cue is merged into that segment).
C8_LongOpeningCueAlone ==
    pc = "done" =>
        \A k \in 1..Len(segment_cues) :
            (segment_cues[k] # <<>> /\ CueSpan(segment_cues[k][1]) > 5 * 1000)
                => Len(segment_cues[k]) = 1

C8_Witness ==
    /\ pc = "done"
    /\ \E k \in 1..(Len(segment_cues) - 1) :
          /\ CueSpan(segment_cues[k][1]) > 5 * 1000
          /\ Len(segment_cues[k]) = 1

\* C9: the text of a segment is the texts of its cues joined with one space
\* in cue order, its startTime is that of its first cue and its endTime that
\* of its last cue.
C9_SegmentFields ==
    \A k \in 1..Len(segments) :
        LET g == segment_cues[k]
        IN  /\ g # <<>>
            /\ segments[k].text =
                   Join([j \in 1..Len(g) |-> CueAt(g[j]).text], <<" ">>)
            /\ segments[k].startTime = CueAt(g[1]).startTime
            /\ segments[k].endTime = CueAt(g[Len(g)]).endTime

C9_Witness ==
    /\ pc = "done"
    /\ \E k \in 1..Len(segments) :
          /\ Len(segment_cues[k]) >= 2
          /\ CueAt(segment_cues[k][1]).endTime # segments[k].endTime

\* C10: the claim of a segment is the first two whitespace-separated tokens
\* of its text joined by one space, or the whole text when the text has
\* fewer than two tokens.
C10_ClaimIsFirstTwoTokens ==
    \A k \in 1..Len(segments) :
        LET toks == SplitWs(segments[k].text)
        IN  segments[k].claim =
                IF Len(toks) >= 2 THEN toks[1] \o <<" ">> \o toks[2]
                ELSE segments[k].text

C10_Witness ==
    /\ pc = "done"
    /\ \E k \in 1..Len(segments) : Len(SplitWs(segments[k].text)) < 2
    /\ \E k \in 1..Len(segments) :
          /\ Len(SplitWs(segments[k].text)) > 2
          /\ segments[k].claim # segments[k].text

\* whether the k-th field the timestamp was written from is a numeral, and
\* its value
FieldNumeric(k) == FieldTable[ts_fields[k]].numeric

FieldValue(k) == FieldTable[ts_fields[k]].val

AllFieldsNumeric == \A k \in 1..Len(ts_fields) : FieldNumeric(k)

\* C11: three numeric fields give H*3600 + M*60 + S, two give M*60 + S, a
\* string without colon gives its own value; fractions are kept
\* ("00:00:05.000" is 5.0, "01:02:03.500" is 3723.5, "02:30.250" is 150.25).
C11_TimestampValue ==
    ts_pc \in {"returned", "raised"} =>
        /\ (AllFieldsNumeric /\ Len(ts_fields) = 3) =>
              /\ ts_pc = "returned"
              /\ ts_result.val = FieldValue(1) * 3600 + FieldValue(2) * 60 + FieldValue(3)
        /\ (AllFieldsNumeric /\ Len(ts_fields) = 2) =>
              /\ ts_pc = "returned"
              /\ ts_result.val = FieldValue(1) * 60 + FieldValue(2)
        /\ (AllFieldsNumeric /\ Len(ts_fields) = 1) =>
              /\ ts_pc = "returned"
              /\ ts_result.val = FieldValue(1)
        /\ ts_input = <<"0","0",":","0","0",":","0","5",".","0","0","0">> => ts_result.val = 5000
        /\ ts_input = <<"0","1",":","0","2",":","0","3",".","5","0","0">> => ts_result.val = 3723500
        /\ ts_input = <<"0","2",":","3","0",".","2","5","0">> => ts_result.val = 150250

C11_Witness ==
    /\ ts_pc = "returned"
    /\ ts_input = <<"0","1",":","0","2",":","0","3",".","5","0","0">>
    /\ ts_result.val = 3723500

\* C12: the call fails whenever one of two or three fields is not a number
\* or is empty, and whenever a string of one field or of four or more fields
\* is not a number (a string with a colon in it never is).
C12_FormatError ==
    ts_pc \in {"returned", "raised"} =>
        LET n == Len(ts_fields)
        IN  ((n \in {2, 3} /\ ~AllFieldsNumeric) \/ (n = 1 /\ ~FieldNumeric(1)) \/ n >= 4)
                => (ts_pc = "raised" /\ ~ts_result.ok)

C12_Witness ==
    /\ ts_pc = "raised"
    /\ Len(ts_fields) = 3
    /\ FieldNumeric(1) /\ FieldNumeric(3)
    /\ FieldTable[ts_fields[2]].str = <<>>

\* the stripped line under 0-based cursor c
LineAt(c) == Strip(lines[c + 1])

\* the cursors of the body of the block whose timing line is under cursor t:
\* the run of non-blank lines after it, up to a blank line or the end
BodyRun(t) ==
    {c \in (t + 1)..(Len(lines) - 1) : \A h \in (t + 1)..c : LineAt(h) # <<>>}

\* the body lines of that block, in order
BodyLines(t) == [n \in 1..Cardinality(BodyRun(t)) |-> LineAt(t + n)]

\* a line that is entirely a markup tag
IsFullTag(line) == StartsWith(line, <<"<">>) /\ EndsWith(line, <<">">>)

\* a line with two timestamps that parse, wherever it stands
ParsesAsTiming(line) == ~Skippable(line) /\ TimingParse(line).ok

\* no timing line of the document both parses and has a body line that is
\* not a markup tag
NoCueBlock ==
    \A t \in 0..(Len(lines) - 1) :
        ParsesAsTiming(LineAt(t)) => \A c \in BodyRun(t) : IsFullTag(LineAt(c))

\* C13: a document without a valid cue block (header, comments, other text,
\* malformed or empty-bodied blocks only, or the empty string) returns the
\* empty segment list.
C13_NoCueNoSegment ==
    (pc = "done" /\ NoCueBlock) => (raw_captions = <<>> /\ segments = <<>>)

C13_Witness ==
    /\ pc = "done"
    /\ NoCueBlock
    /\ warned # {}
    /\ \E t \in 0..(Len(lines) - 1) : ParsesAsTiming(LineAt(t))
    /\ segments = <<>>

\* C14: every extracted cue has non-empty text and comes from a block with a
\* body line that is not a markup tag (a block without body, or with tag
\* lines only, emits no cue).
C14_NoEmptyCue ==
    \A k \in 1..Len(raw_captions) :
        /\ raw_captions[k].text # <<>>
        /\ \E c \in BodyRun(caption_line[k]) : ~IsFullTag(LineAt(c))

\* a cue was extracted after an empty-bodied block
C14_Witness ==
    /\ pc = "done"
    /\ \E k \in 1..Len(raw_captions) :
          \E t \in 0..(caption_line[k] - 1) :
              /\ ParsesAsTiming(LineAt(t))
              /\ \A c \in BodyRun(t) : IsFullTag(LineAt(c))

\* the timing line of the k-th extracted cue
TimingLineOf(k) == LineAt(caption_line[k])

\* the text left of the first arrow of a timing line
LeftOfArrow(line) == SubSeq(line, 1, Find(line, Arrow) - 1)

\* the text right of the first arrow of a timing line
RightOfArrow(line) == SubSeq(line, Find(line, Arrow) + Len(Arrow), Len(line))

\* the text between the first arrow and the next one (or the end of line)
UpToNextArrow(line) ==
    LET r == RightOfArrow(line)
    IN  IF Contains(r, Arrow) THEN SubSeq(r, 1, Find(r, Arrow) - 1) ELSE r

StartStamp(line) == Strip(LeftOfArrow(line))

\* the end timestamp as the first token right of the first arrow
EndStampToken(line) == FirstToken(LStrip(RightOfArrow(line)))

\* the end timestamp as the first token between the first two arrows
EndStampCut(line) == FirstToken(LStrip(UpToNextArrow(line)))

\* a timestamp written with digits, '.' and ':' only
PlainStamp(s) ==
    s # <<>> /\ \A n \in 1..Len(s) : IsDigit(s[n]) \/ s[n] \in {".", ":"}

\* C15 as stated: every extracted cue has startTime >= 0, endTime >= 0 and
\* endTime >= startTime, for any input document.
C15_AnyDocument ==
    \A k \in 1..Len(raw_captions) :
        /\ raw_captions[k].startTime >= 0
        /\ raw_captions[k].endTime >= 0
        /\ raw_captions[k].endTime >= raw_captions[k].startTime

\* C15 amended: a cue has startTime >= 0 (endTime >= 0) when the start (end)
\* timestamp of its timing line is written with digits, '.' and ':' only,
\* and endTime >= startTime when both are and the end timestamp is not
\* earlier than the start timestamp.
C15_CueTimes ==
    \A k \in 1..Len(raw_captions) :
        LET st == StartStamp(TimingLineOf(k))
            en == EndStampCut(TimingLineOf(k))
        IN  /\ PlainStamp(st) => raw_captions[k].startTime >= 0
            /\ PlainStamp(en) => raw_captions[k].endTime >= 0
            /\ (/\ PlainStamp(st) /\ PlainStamp(en)
                /\ parse_vtt_timestamp(en).val >= parse_vtt_timestamp(st).val)
                  => raw_captions[k].endTime >= raw_captions[k].startTime

C15_Witness ==
    /\ pc = "done"
    /\ \E k \in 1..Len(raw_captions) :
          /\ PlainStamp(StartStamp(TimingLineOf(k)))
          /\ PlainStamp(EndStampCut(TimingLineOf(k)))
          /\ raw_captions[k].endTime > raw_captions[k].startTime
    /\ \E k \in 1..Len(raw_captions) : ~PlainStamp(StartStamp(TimingLineOf(k)))

\* C16: the text of a cue is the retained lines of the whole run of non-blank
\* lines after its timing line, trimmed and joined with one space, also when
\* a line of the run holds an arrow or starts with WEBVTT or NOTE; no line of
\* the run is the timing line of another cue.
C16_BodyIsWholeRun ==
    \A k \in 1..Len(raw_captions) :
        /\ raw_captions[k].text =
               Join(SelectSeq(BodyLines(caption_line[k]), RetainBodyLine), <<" ">>)
        /\ \A h \in 1..Len(raw_captions) :
               caption_line[h] \notin BodyRun(caption_line[k])

C16_Witness ==
    /\ pc = "done"
    /\ \E k \in 1..Len(raw_captions) :
          /\ \E c \in BodyRun(caption_line[k]) : ParsesAsTiming(LineAt(c))
          /\ \E c \in BodyRun(caption_line[k]) :
                StartsWith(LineAt(c), <<"N", "O", "T", "E">>)
          /\ Contains(raw_captions[k].text, Arrow)

\* the cues k and h have the same timestamps and the same body
SameButSettings(k, h) ==
    /\ StartStamp(TimingLineOf(k)) = StartStamp(TimingLineOf(h))
    /\ EndStampCut(TimingLineOf(k)) = EndStampCut(TimingLineOf(h))
    /\ BodyLines(caption_line[k]) = BodyLines(caption_line[h])

\* C18 as stated: the start timestamp is the text left of the first arrow,
\* the end timestamp is the first whitespace-delimited token right of it.
C18_FirstTokenRightOfArrow ==
    \A k \in 1..Len(raw_captions) :
        /\ parse_vtt_timestamp(StartStamp(TimingLineOf(k))).ok
        /\ parse_vtt_timestamp(EndStampToken(TimingLineOf(k))).ok
        /\ raw_captions[k].startTime = parse_vtt_timestamp(StartStamp(TimingLineOf(k))).val
        /\ raw_captions[k].endTime = parse_vtt_timestamp(EndStampToken(TimingLineOf(k))).val

\* C18 amended: the start timestamp is the text left of the first arrow, the
\* end timestamp is the first whitespace-delimited token of the text between
\* the first arrow and the next arrow, if any; later tokens are ignored: the
\* parse error is raised only on a line where one of these two does not
\* parse, and cues that differ only in the later tokens are equal.
C18_SettingsIgnored ==
    /\ \A k \in 1..Len(raw_captions) :
          /\ parse_vtt_timestamp(StartStamp(TimingLineOf(k))).ok
          /\ parse_vtt_timestamp(EndStampCut(TimingLineOf(k))).ok
          /\ raw_captions[k].startTime = parse_vtt_timestamp(StartStamp(TimingLineOf(k))).val
          /\ raw_captions[k].endTime = parse_vtt_timestamp(EndStampCut(TimingLineOf(k))).val
    /\ \A m \in warned :
          ~(/\ parse_vtt_timestamp(StartStamp(LineAt(m))).ok
            /\ parse_vtt_timestamp(EndStampCut(LineAt(m))).ok)
    /\ \A k, h \in 1..Len(raw_captions) :
          SameButSettings(k, h) => raw_captions[k] = raw_captions[h]

\* two cues were extracted from lines that differ in the cue settings only
C18_Witness ==
    /\ pc = "done"
    /\ \E k, h \in 1..Len(raw_captions) :
          /\ SameButSettings(k, h)
          /\ TimingLineOf(k) # TimingLineOf(h)
          /\ Len(SplitWs(RightOfArrow(TimingLineOf(k)))) >= 3

\* C17: what a call of parse_vtt_captions returns depends on its argument
\* only: a call made after earlier calls, and any call that shares the
\* processor with a call on another thread, returns the segments that the
\* call on the same document returned when it ran alone and first, the ids
\* starting at seg_0 and claimIndex at 0.
C17_OwnInputOnly ==
    /\ (alone.set /\ pc = "done" /\ vtt_content = alone.doc) =>
           /\ segments = alone.segments
           /\ \A k \in 1..Len(segments) :
                  /\ segments[k].id = <<"s","e","g","_">> \o ToDecimal(k - 1)
                  /\ segments[k].claimIndex = k - 1
    /\ (alone.set /\ parked.pc = "done" /\ parked.vtt_content = alone.doc) =>
           parked.segments = alone.segments

\* the third call is made on the document of the first, was switched out in
\* the middle and has returned two segments, while the other thread holds
\* segments of its own
C17_Witness ==
    /\ alone.set
    /\ calls = 3
    /\ pc = "done"
    /\ running \in preempted
    /\ vtt_content = alone.doc
    /\ Len(segments) = 2
    /\ parked.pc # "none"
    /\ parked.segments # <<>>
    /\ parked.segments # segments

CursorAdvances ==
    /\ (pc \in {"scan", "body"} /\ pc' \in {"scan", "body"}) => i' > i
    /\ pc = "fold" => i' > i
    /\ pc' = "emit" => current_segment_cues' # <<>>

\* more than three steps per cue of the grouping loop
GroupingBound == 3 * (Len(vtt_content) + 1) + 3

\* the number of steps the call can still take is at most Remaining
Remaining ==
    CASE pc = "start" -> GroupingBound + Len(vtt_content) + 4
      [] pc \in {"scan", "body"} -> GroupingBound + 1 + (Len(lines) + 1 - i)
      [] pc = "group" -> 3 * (Len(raw_captions) - i) + 2
      [] pc = "fold"  -> 3 * (Len(raw_captions) - i) + 1
      [] pc = "emit"  -> 3 * (Len(raw_captions) - i) + 3
      [] pc = "done"  -> 0

\* C20: parse_vtt_captions terminates on every document: every iteration of
\* the line-scanning loop advances the line cursor (also after a parse error
\* and when a body ends at the end of input), every iteration of the
\* grouping loop consumes at least one cue, and every step lowers a natural
\* number, so that no call runs forever.
C20_Terminates ==
    [][/\ CursorAdvances
       /\ Remaining \in Nat
       /\ Remaining' \in Nat
       /\ Remaining' < Remaining]_vars

\* a call that met a parse error, whose last cue has its body on the last
\* line of the input, and that returned segments
C20_Witness ==
    /\ pc = "done"
    /\ warned # {}
    /\ segments # <<>>
    /\ caption_line # <<>>
    /\ caption_line[Len(caption_line)] = Len(lines) - 2
    /\ LineAt(Len(lines) - 1) # <<>>

\* C24: get_cookie_file_path makes a cookie file at most once while the
\* cached file exists: a call made when the last call returned a path whose
\* file still exists, or when the cached path names an existing file,
\* returns that path and makes no file; when no cookies are configured or
\* the decoding fails the call returns None and leaves the cached path as
\* it was.
C24_CreatedOnce ==
    [][cookie_calls' # cookie_calls =>
         /\ (cookie_returned # 0 /\ cookie_returned \in temp_files) =>
                /\ cookie_returned' = cookie_returned
                /\ temp_files' = temp_files
                /\ mkstemp_count' = mkstemp_count
         /\ (_cookie_file_path # 0 /\ _cookie_file_path \in temp_files) =>
                /\ cookie_returned' = _cookie_file_path
                /\ _cookie_file_path' = _cookie_file_path
                /\ temp_files' = temp_files
                /\ mkstemp_count' = mkstemp_count
         /\ YOUTUBE_COOKIES_BASE64 \in {"empty", "bad_padding", "bad_utf8"} =>
                /\ cookie_returned' = 0
                /\ _cookie_file_path' = _cookie_file_path]_vars

\* the third call returned the path that the first call made, and the file
\* is still the only one
C24_Witness ==
    /\ cookie_calls >= 3
    /\ cookie_returned = 1
    /\ _cookie_file_path = 1
    /\ temp_files = {1}
    /\ mkstemp_count = 1

\* C21: get_transcript never answers with an empty list of segments: when
\* parse_vtt_captions returns no segment the client receives 400; a 400, 404
\* or 500 raised as HTTPException inside the handler reaches the client with
\* its own status and detail; any other exception reaches it as 500; and a
\* request that raised nothing is answered with the segments of the parse.
C21_StatusReachesClient ==
    h_pc = "done" =>
        /\ h_result.status \in {200, 400, 404, 500}
        /\ h_result.status = 200 =>
              /\ h_result.segments # <<>>
              /\ h_result.segments = segments
              /\ h_raised.kind = "nothing"
        /\ (pc = "done" /\ segments = <<>>) =>
              /\ h_result.status = 400
              /\ h_raised = HTTPException(400, "Failed to parse subtitles")
        /\ h_raised.kind = "HTTPException" =>
              /\ h_result.status = h_raised.status_code
              /\ h_result.detail = h_raised.detail
        /\ h_raised.kind = "Exception" => h_result.status = 500
        /\ h_result.status = 400 => (pc = "done" /\ segments = <<>>)
        /\ h_result.status = 404 => pc = "idle"

\* a document whose only cue block is malformed was downloaded and parsed,
\* and the client received 400
C21_Witness ==
    /\ h_pc = "done"
    /\ h_result.status = 400
    /\ warned # {}
    /\ pc = "done"

\* the four fields of a segment that the analysis carries over
Four(seg) ==
    [id |-> seg.id, text |-> seg.text,
     startTime |-> seg.startTime, endTime |-> seg.endTime]

\* input segment k starts before 180 seconds
StartsBefore180(k) ==
    /\ ~a_input.segments[k].startTime.nan
    /\ a_input.segments[k].startTime.ms < 180 * 1000

\* input segment k starts at 180 seconds or later
StartsAtOrAfter180(k) ==
    /\ ~a_input.segments[k].startTime.nan
    /\ a_input.segments[k].startTime.ms >= 180 * 1000

RECURSIVE PickFour(_, _)
\* the four fields of the first n input segments whose number is in S, in
\* input order
PickFour(S, n) ==
    IF n = 0 THEN <<>>
    ELSE PickFour(S, n - 1) \o
         (IF n \in S THEN <<Four(a_input.segments[n])>> ELSE <<>>)

InputCount == Len(a_input.segments)

EarlySegments == PickFour({k \in 1..InputCount : StartsBefore180(k)}, InputCount)

LateSegments == PickFour({k \in 1..InputCount : StartsAtOrAfter180(k)}, InputCount)

\* only the segments that start before 180 seconds are sent to the model
OnlyEarlySent ==
    (a_function = "video" /\ a_pc # "called") =>
        user_payload.segments = EarlySegments

\* the response holds the segments of the reply, then the late segments
ReplyThenLate ==
    /\ a_result.kind = "response"
    /\ LET replied == Get(raw, "segments", <<>>)
       IN  /\ Len(a_result.segments) = Len(replied) + Len(LateSegments)
           /\ \A j \in 1..Len(replied) :
                 /\ Four(a_result.segments[j]) = Four(replied[j])
                 /\ "claim" \in DOMAIN replied[j] =>
                       a_result.segments[j].claim = replied[j].claim
           /\ \A j \in 1..Len(LateSegments) :
                 Four(a_result.segments[Len(replied) + j]) = LateSegments[j]

C23_FallbackOnInvalidJson ==
    (a_pc = "done" /\ raw.kind = "invalid") =>
        /\ a_result.kind = "response"
        /\ searches = 0
        /\ a_result.confidenceScores = 0
        /\ a_result.sourcesList = <<>>
        /\ a_function = "video" =>
              /\ a_result.videoId = a_input.video_id
              /\ Len(a_result.segments) = InputCount
              /\ \A k \in 1..InputCount :
                    Four(a_result.segments[k]) = Four(a_input.segments[k])
        /\ a_function = "text" => a_result.htmlContent = a_input.text

\* the fallback of the video analysis for an input of an early segment and a
\* late one
C23_Witness ==
    /\ a_function = "video"
    /\ a_pc = "done"
    /\ raw.kind = "invalid"
    /\ InputCount = 2
    /\ StartsBefore180(1)
    /\ StartsAtOrAfter180(2)
    /\ Len(a_result.segments) = 2

====
